---- MODULE Spec2Model ----
(***************************************************************************)
(* Real-time interaction layer of post-master-backend.                     *)
(*                                                                         *)
(* The chat feature (src/src/features/chat/index.js) keeps a process-local *)
(* Map `onlineUsers` from user id to ONE socket id, stores messages in the *)
(* chat_messages table (columns id, sender_id, receiver_id, is_read,       *)
(* created_at) and talks to the rest of the system through the in-process  *)
(* event bus (src/src/core/eventBus.js).                                   *)
(*                                                                         *)
(* Socket event handlers without an `await` run to completion and are one  *)
(* action each.  Handlers with `await db.query(...)` are split at exactly  *)
(* those suspension points; the database effect of a query is applied in   *)
(* the step that resumes the handler, and a query may reject.  A handler   *)
(* that has returned leaves no record behind: what it emitted in its last  *)
(* step is in `out` and `published`, what it wrote is in `messages`.       *)
(*                                                                         *)
(* A socket id stands for one connection.  An id whose connection has      *)
(* closed is handed out again only when nothing refers to it any more (no  *)
(* onlineUsers entry, no suspended handler), so a stale reference never    *)
(* resolves to a later connection, exactly as with socket.io's unique ids. *)
(* socket.join(`user:<id>`) is not modelled: no emit in the feature        *)
(* addresses a user room.                                                  *)
(***************************************************************************)
EXTENDS Integers, Sequences, FiniteSets, TLC

\* ------------------------------------------------------------------ bounds
NumUsers == 2
NumSockets == 2
MaxMsgs == 1
MaxInFlight == 1

\* limit = 50 is the default page size of GET /chat/messages/:userId
DefaultLimit == 50

Users == 1..NumUsers
Sockets == 1..NumSockets
MsgIds == 1..MaxMsgs
None == 0
\* a receiver id that is not the id of any row of the users table
NoSuchUser == NumUsers + 1

VARIABLES
  connected,     \* the sockets whose connection is open
  sockUser,      \* socket.userId of an open socket (None: unauthenticated)
  onlineUsers,   \* the Map: user -> socket id (None = no entry)
  nextId,        \* next message id / timestamp to hand out
  messages,      \* chat_messages: id -> [sender, receiver, is_read, created_at]
  sends,         \* suspended message:send handlers: id -> [sock, receiver, sender, pc]
  reads,         \* message:read handler per socket: [pc, mid, uid]
  http,          \* GET /chat/messages/:userId request in flight
  listeners,     \* EventBus.listeners: event -> sequence of handlers
  notifications, \* durable Notification records: [user, mid]
  delivered,     \* messages that reached the receiving side: message:receive
                 \* arrived at an open socket, or GET /chat/messages returned
                 \* the row to the receiver
  published,     \* events handed to EventBus.emit in the last step: [event, mid]
  out,           \* socket emissions of the last step: [ev, to, arg]
  emits,         \* the EventBus.emit call in progress: position of its loop
  videoLikes,    \* video.likes of the video: the users who like it
  likedPosts,    \* the users whose user.likedPosts holds the video
  commenters,    \* the authors of the comments stored for the video
  following,     \* <<a, b>>: a's user.following holds b
  followers,     \* <<a, b>>: b's user.followers holds a
  settings,      \* user.settings.notifications: user -> [push, email]
  postLikes,     \* likes table rows of the post: the users who like it
  emails,        \* recipients sendEmail was called for in the last step
  faults,        \* the calls that rejected in the last step
  response,      \* the HTTP response of the last step: [op, actor, status]
  now,           \* the clock of the cache store, in ticks
  cache,         \* the entry under the key video:<id>, or NoEntry
  dbViews,       \* views of the video document in the database
  vreq,          \* the getVideo request in flight: [pc, doc]
  served,        \* what getVideo answered in the last step
  dbRev,         \* how often the video document was updated, plus one
  ureq,          \* the updateVideo request in flight: [pc]
  lastViews,     \* data.video.views of the latest getVideo response
  post,          \* the row of the post in the posts table: [exists, rev]
  postCache,     \* the container cache: key -> cached value, or Miss
  postServed,    \* what GET /posts or GET /posts/:slug answered last
  feeds,         \* the cached feed and trending listings: key -> entry
  feedServed,    \* what getFeed or getTrendingVideos answered last
  typing,        \* the typing event handled last: [sock, receiver, kind, n],
                 \* n being the number of typing events so far modulo 2
  cleaned        \* cleanup() of the post feature has run

vars == <<connected, sockUser, onlineUsers, nextId, messages, sends, reads,
          http, listeners, notifications, delivered, published, out, emits,
          videoLikes, likedPosts, commenters, following, followers, settings,
          postLikes, emails, faults, response, now, cache, dbViews, vreq,
          served, dbRev, ureq, lastViews, post, postCache, postServed, feeds, feedServed,
          typing, cleaned>>

presenceVars == <<connected, sockUser, onlineUsers>>

\* the state of the chat feature
chatVars == <<connected, sockUser, onlineUsers, nextId, messages, sends,
              reads, http, notifications, delivered, published, out>>

\* the documents and rows of the like, comment and follow operations and
\* what their last step sent out
socialVars == <<videoLikes, likedPosts, commenters, following, followers,
                settings, postLikes, emails, faults, response>>

\* the cache store, the video document and the getVideo request
cacheVars == <<now, cache, dbViews, vreq, served, dbRev, ureq, lastViews>>

\* the posts table and the cache of the post feature
postVars == <<post, postCache, postServed>>

\* the listings of videos kept by the Redis helpers
feedVars == <<feeds, feedServed>>

\* the state the chat feature's socket and HTTP handlers never touch
nonChatVars == <<emits, socialVars, cacheVars, postVars, feedVars, typing, cleaned>>

\* the state EventBus.on, off and emit never touch
nonBusVars == <<chatVars, socialVars, cacheVars, postVars, feedVars, typing, cleaned>>

\* ------------------------------------------------------------- transport
\* socket.emit(ev, arg): addressed to that one socket
SocketEmit(s, ev, arg) == {[ev |-> ev, to |-> s, arg |-> arg]}

\* socket.broadcast.emit(ev, arg): every open socket except the sender
BroadcastEmit(s, ev, arg) ==
  {[ev |-> ev, to |-> t, arg |-> arg] : t \in connected \ {s}}

\* io.to(socketId).emit(ev, arg): the members of the room named after that
\* socket id, that is the socket itself while it is open
RoomEmit(sid, ev, arg) ==
  {[ev |-> ev, to |-> t, arg |-> arg] : t \in connected \cap {sid}}

\* ------------------------------------------------------------- event bus
\* the eventBus.on(...) calls made while the chat feature registers; no
\* feature subscribes to 'notification.create'
RegisteredListeners ==
  [e \in {"chat.message.sent", "notification.create"} |->
     IF e = "chat.message.sent" THEN <<"chat.onMessageSent">> ELSE <<>>]

IdleRead == [pc |-> "idle", mid |-> None, uid |-> None]

\* no typing event yet
NoTyping == [sock |-> None, receiver |-> None, kind |-> "none", n |-> 0]

IdleHttp == [pc |-> "idle", cur |-> None, other |-> None, rows |-> {}]

NoResponse == [op |-> "none", actor |-> None, status |-> 0]

\* settings.notifications of a new user document
DefaultSettings == [push |-> TRUE, email |-> TRUE]

\* no cache entry
NoEntry == [exp |-> 0, loadedAt |-> 0, views |-> 0, rev |-> 0, form |-> "none"]

IdleVideoRequest == [pc |-> "idle", doc |-> 0, rev |-> 0]

\* no updateVideo request
IdleUpdate == [pc |-> "idle"]

NothingServed == [from |-> "none", loadedAt |-> 0, views |-> 0]

\* an empty cache store, a video nobody has viewed, no request
NoCacheActivity ==
  /\ now = 0
  /\ cache = NoEntry
  /\ dbViews = 0
  /\ vreq = IdleVideoRequest
  /\ served = NothingServed
  /\ dbRev = 1
  /\ ureq = IdleUpdate
  /\ lastViews = 0

\* a cache lookup that found nothing (redis.get returned null)
Miss == [rev |-> 0, likes |-> {}]

\* the keys of the container cache the post feature names: the listing key
\* of GET /posts for one query, the key of GET /posts/:slug for the post,
\* and the two keys POST /posts deletes
PostKeys == {"posts:page", "post:slug", "posts:all", "user:posts"}

\* the post is published at revision 1, nothing is cached, nothing served
NoPostActivity ==
  /\ post = [exists |-> TRUE, rev |-> 1]
  /\ postCache = [k \in PostKeys |-> Miss]
  /\ postServed = [key |-> "none", source |-> "none", data |-> Miss]

\* the methods of the object registered as 'cache' in the container
CacheMethods == {"get", "set", "del"}

\* cache.clearPattern(...) on that object calls undefined: a TypeError
ClearPatternThrows == "clearPattern" \notin CacheMethods

\* the keys that start with one of the prefixes (the patterns 'posts:*' and
\* 'post:*' of the post feature)
CacheMatching(prefixes) ==
  {k \in PostKeys :
     \/ "posts:" \in prefixes /\ k \in {"posts:page", "posts:all"}
     \/ "post:" \in prefixes /\ k = "post:slug"}

\* redis.del(key) for each of the keys
CacheDel(c, keys) == [k \in PostKeys |-> IF k \in keys THEN Miss ELSE c[k]]

\* a key the listings are cached under: `feed:${userId}:${page}:${limit}`
\* of getFeed for one page and limit, `videos:trending:${page}:${limit}` of
\* getTrendingVideos
FeedKey(u) == <<"feed:", u>>
TrendingKey == <<"videos:trending:", None>>
FeedKeys == {FeedKey(u) : u \in Users} \cup {TrendingKey}

\* no entry under a key
NoListing == [cached |-> FALSE, listed |-> FALSE, likes |-> {}]

\* nothing is cached, nothing was served
NoFeedActivity ==
  /\ feeds = [k \in FeedKeys |-> NoListing]
  /\ feedServed = [key |-> None, source |-> "none", data |-> NoListing]

\* deleteCache(key) on the key video:<id>: redisClient.del, whose error is
\* caught and logged
DeleteCache(ok) == IF ok THEN NoEntry ELSE cache

\* clearPattern(`${prefix}${id}:*`): redisClient.keys(pattern), then del of
\* the keys found; an error of the store is caught and logged
ClearPattern(prefix, id, ok) ==
  [k \in FeedKeys |->
     IF ok /\ k[1] = prefix /\ k[2] = id THEN NoListing ELSE feeds[k]]

\* no like, comment or follow yet
NoSocialActivity ==
  /\ videoLikes = {}
  /\ likedPosts = {}
  /\ commenters = {}
  /\ following = {}
  /\ followers = {}
  /\ postLikes = {}
  /\ emails = {}
  /\ faults = {}
  /\ response = NoResponse

Init ==
  /\ connected = {}
  /\ sockUser = [s \in Sockets |-> None]
  /\ onlineUsers = [u \in Users |-> None]
  /\ nextId = 1
  /\ messages = <<>>
  /\ sends = <<>>
  /\ reads = [s \in Sockets |-> IdleRead]
  /\ http = IdleHttp
  /\ listeners = RegisteredListeners
  /\ notifications = {}
  /\ delivered = {}
  /\ published = {}
  /\ out = {}
  /\ typing = NoTyping
  /\ cleaned = FALSE
  /\ emits = <<>>
  /\ NoSocialActivity
  /\ settings = [u \in Users |-> DefaultSettings]
  /\ NoCacheActivity
  /\ NoPostActivity
  /\ NoFeedActivity

\* --------------------------------------------------------------- presence
\* socket ids nothing refers to: free to name a new connection
Unreferenced ==
  {s \in Sockets :
     /\ s \notin connected
     /\ \A u \in Users : onlineUsers[u] # s
     /\ \A m \in DOMAIN sends : sends[m].sock # s
     /\ reads[s].pc = "idle"}

\* io.on('connection')
Connect(s) ==
  /\ s \in Unreferenced
  /\ \A t \in Unreferenced : s <= t
  /\ connected' = connected \cup {s}
  /\ out' = {}
  /\ published' = {}
  /\ UNCHANGED <<sockUser, onlineUsers>>
  /\ UNCHANGED <<nextId, messages, sends, reads, http, listeners,
                 notifications, delivered>>
  /\ UNCHANGED nonChatVars

\* onlineUsers.delete(socket.userId)
DeleteOnline(s) ==
  IF sockUser[s] # None
  THEN [onlineUsers EXCEPT ![sockUser[s]] = None]
  ELSE onlineUsers

\* socket.broadcast.emit('user:offline', ...) of the disconnect handler
AnnounceOffline(s) ==
  IF sockUser[s] # None
  THEN {[ev |-> "user:offline", to |-> t, arg |-> sockUser[s]] :
          t \in connected \ {s}}
  ELSE {}

\* socket.on('disconnect')
Disconnect(s) ==
  /\ s \in connected
  /\ connected' = connected \ {s}
  /\ onlineUsers' = DeleteOnline(s)
  /\ out' = AnnounceOffline(s)
  /\ sockUser' = [sockUser EXCEPT ![s] = None]
  /\ published' = {}
  /\ UNCHANGED <<nextId, messages, sends, reads, http, listeners,
                 notifications, delivered>>
  /\ UNCHANGED nonChatVars

\* onlineUsers.set(userId, socket.id)
SetOnline(s, u) == [onlineUsers EXCEPT ![u] = s]

\* socket.on('authenticate') with a token that verifies as user u
Authenticate(s, u) ==
  /\ s \in connected
  /\ onlineUsers' = SetOnline(s, u)
  /\ sockUser' = [sockUser EXCEPT ![s] = u]
  /\ out' = BroadcastEmit(s, "user:online", u)
            \cup SocketEmit(s, "users:online",
                            {v \in Users : onlineUsers'[v] # None})
  /\ published' = {}
  /\ UNCHANGED connected
  /\ UNCHANGED <<nextId, messages, sends, reads, http, listeners,
                 notifications, delivered>>
  /\ UNCHANGED nonChatVars

\* typing handlers that tell the sender when the receiver has no socket in
\* the registry
TypingReportsOffline(s, r, kind) ==
  LET receiverSocketId == IF r \in Users THEN onlineUsers[r] ELSE None
  IN /\ s \in connected
     /\ typing' = [sock |-> s, receiver |-> r, kind |-> kind,
                   n |-> 1 - typing.n]
     /\ out' = IF sockUser[s] = None
               THEN {}
               ELSE IF receiverSocketId # None
               THEN RoomEmit(receiverSocketId, kind, sockUser[s])
               ELSE SocketEmit(s, "error", "offline")
     /\ published' = {}
     /\ UNCHANGED presenceVars
     /\ UNCHANGED <<nextId, messages, sends, reads, http, listeners,
                    notifications, delivered>>
     /\ UNCHANGED <<emits, socialVars, cacheVars, postVars, feedVars, cleaned>>

\* socket.on('typing:start') and socket.on('typing:stop'): nothing without
\* socket.userId; else the event goes to the socket the registry holds for
\* the receiver, if it holds one
Typing(s, r, kind) ==
  LET receiverSocketId == IF r \in Users THEN onlineUsers[r] ELSE None
  IN /\ s \in connected
     /\ typing' = [sock |-> s, receiver |-> r, kind |-> kind,
                   n |-> 1 - typing.n]
     /\ out' = IF sockUser[s] # None /\ receiverSocketId # None
               THEN RoomEmit(receiverSocketId, kind, sockUser[s])
               ELSE {}
     /\ published' = {}
     /\ UNCHANGED presenceVars
     /\ UNCHANGED <<nextId, messages, sends, reads, http, listeners,
                    notifications, delivered>>
     /\ UNCHANGED <<emits, socialVars, cacheVars, postVars, feedVars, cleaned>>

\* the connections and the typing indicators of the chat feature
NextTyping ==
  \/ \E s \in Sockets : Connect(s)
  \/ \E s \in Sockets, u \in Users : Authenticate(s, u)
  \/ \E s \in Sockets : Disconnect(s)
  \/ \E s \in Sockets, r \in Users \cup {NoSuchUser},
        kind \in {"typing:start", "typing:stop"} : Typing(s, r, kind)

SpecTyping == Init /\ [][NextTyping]_vars

\* socket.on('authenticate') with a token jwt.verify rejects: error, then
\* socket.disconnect(), which runs the disconnect handler
AuthenticateFail(s) ==
  /\ s \in connected
  /\ connected' = connected \ {s}
  /\ onlineUsers' = DeleteOnline(s)
  /\ out' = SocketEmit(s, "error", "Authentication failed")
            \cup AnnounceOffline(s)
  /\ sockUser' = [sockUser EXCEPT ![s] = None]
  /\ published' = {}
  /\ UNCHANGED <<nextId, messages, sends, reads, http, listeners,
                 notifications, delivered>>
  /\ UNCHANGED nonChatVars

\* ------------------------------------------------------------ message:send
\* handlers suspended at an await
InFlight ==
  Cardinality(DOMAIN sends)
  + Cardinality({s \in Sockets : reads[s].pc # "idle"})
  + (IF http.pc # "idle" THEN 1 ELSE 0)

\* socket.on('message:send') past its guards (authenticated socket, receiver
\* and content present): messageId and timestamp are taken, then the INSERT
\* is awaited
SendStart(s, r) ==
  /\ s \in connected
  /\ sockUser[s] # None
  /\ nextId <= MaxMsgs
  /\ InFlight < MaxInFlight
  /\ sends' = (nextId :> [sock |-> s, receiver |-> r, sender |-> sockUser[s],
                          pc |-> "insert"]) @@ sends
  /\ nextId' = nextId + 1
  /\ out' = {}
  /\ published' = {}
  /\ UNCHANGED presenceVars
  /\ UNCHANGED <<messages, reads, http, listeners, notifications, delivered>>
  /\ UNCHANGED nonChatVars

\* the handler has returned
Finished(m) == [k \in DOMAIN sends \ {m} |-> sends[k]]

\* a catch block that acknowledges the message although a query rejected
SendCatchAcknowledges(m) ==
  /\ sends' = Finished(m)
  /\ out' = SocketEmit(sends[m].sock, "message:sent", m)
  /\ published' = {}
  /\ UNCHANGED notifications

\* the catch block of socket.on('message:send')
SendCatch(m) ==
  /\ sends' = Finished(m)
  /\ out' = SocketEmit(sends[m].sock, "error", "Failed to send message")
  /\ published' = {}
  /\ UNCHANGED notifications

\* eventBus.emit('chat.message.sent', ...): the events handed to the bus
\* while its handlers run.  The chat handler asks for a notification when
\* the receiver has no onlineUsers entry.
BusEmitMessageSent(m, r) ==
  {[event |-> "chat.message.sent", mid |-> m]}
  \cup {[event |-> "notification.create", mid |-> m] :
          i \in {j \in DOMAIN listeners["chat.message.sent"] :
                   /\ listeners["chat.message.sent"][j] = "chat.onMessageSent"
                   /\ onlineUsers[r] = None}}

\* Notification records written while 'notification.create' is delivered:
\* one per handler subscribed to it
NotificationsCreated(m, r) ==
  {[user |-> r, mid |-> m] :
     i \in {j \in DOMAIN listeners["notification.create"] :
              [event |-> "notification.create", mid |-> m]
                \in BusEmitMessageSent(m, r)}}

\* socket.emit('message:sent') followed by eventBus.emit('chat.message.sent')
SendAck(m) ==
  /\ sends' = Finished(m)
  /\ out' = SocketEmit(sends[m].sock, "message:sent", m)
  /\ published' = BusEmitMessageSent(m, sends[m].receiver)
  /\ notifications' = notifications
                      \cup NotificationsCreated(m, sends[m].receiver)

\* the same INSERT into a table whose receiver_id has no foreign key
InsertWithoutForeignKey(ok, r) == ok

\* the INSERT violates the receiver_id foreign key for an unknown receiver
InsertSucceeds(ok, r) == ok /\ r \in Users

SendInsertDone(m, ok) ==
  /\ m \in DOMAIN sends
  /\ sends[m].pc = "insert"
  /\ IF InsertSucceeds(ok, sends[m].receiver)
     THEN /\ messages' = (m :> [sender |-> sends[m].sender,
                                receiver |-> sends[m].receiver,
                                is_read |-> FALSE,
                                created_at |-> m]) @@ messages
          /\ sends' = [sends EXCEPT ![m].pc = "select"]
          /\ out' = {}
          /\ published' = {}
          /\ UNCHANGED notifications
     ELSE /\ SendCatch(m)
          /\ UNCHANGED messages
  /\ UNCHANGED presenceVars
  /\ UNCHANGED <<nextId, reads, http, listeners, delivered>>
  /\ UNCHANGED nonChatVars

\* io.to(receiverSocketId).emit('message:receive', message)
PushLive(m, rsock) == RoomEmit(rsock, "message:receive", m)

\* the sender lookup returns; the receiver is routed through onlineUsers
SendSelectDone(m, ok) ==
  /\ m \in DOMAIN sends
  /\ sends[m].pc = "select"
  /\ IF ~ok
     THEN SendCatch(m) /\ UNCHANGED delivered
     ELSE IF onlineUsers[sends[m].receiver] # None
     THEN /\ out' = PushLive(m, onlineUsers[sends[m].receiver])
          /\ delivered' = IF out' # {} THEN delivered \cup {m} ELSE delivered
          /\ sends' = [sends EXCEPT ![m].pc = "update"]
          /\ published' = {}
          /\ UNCHANGED notifications
     ELSE SendAck(m) /\ UNCHANGED delivered
  /\ UNCHANGED presenceVars
  /\ UNCHANGED <<nextId, messages, reads, http, listeners>>
  /\ UNCHANGED nonChatVars

\* 'UPDATE chat_messages SET is_read = true WHERE id = $1' returns
MarkReadAfterPush(m) == [messages EXCEPT ![m].is_read = TRUE]

SendUpdateDone(m, ok) ==
  /\ m \in DOMAIN sends
  /\ sends[m].pc = "update"
  /\ IF ok
     THEN /\ messages' = MarkReadAfterPush(m)
          /\ SendAck(m)
     ELSE /\ SendCatch(m)
          /\ UNCHANGED messages
  /\ UNCHANGED presenceVars
  /\ UNCHANGED <<nextId, reads, http, listeners, delivered>>
  /\ UNCHANGED nonChatVars

\* ------------------------------------------------------------ message:read
\* socket.on('message:read') on an authenticated socket: the UPDATE is awaited
ReadStart(s, mid) ==
  /\ s \in connected
  /\ sockUser[s] # None
  /\ reads[s].pc = "idle"
  /\ InFlight < MaxInFlight
  /\ reads' = [reads EXCEPT ![s] = [pc |-> "update", mid |-> mid,
                                    uid |-> sockUser[s]]]
  /\ out' = {}
  /\ published' = {}
  /\ UNCHANGED presenceVars
  /\ UNCHANGED <<nextId, messages, sends, http, listeners, notifications,
                 delivered>>
  /\ UNCHANGED nonChatVars

\* the same UPDATE without its `AND receiver_id = $2` condition
MarkReadAnyone(mid, uid) ==
  [m \in DOMAIN messages |->
     IF m = mid
     THEN [messages[m] EXCEPT !.is_read = TRUE]
     ELSE messages[m]]

\* 'UPDATE chat_messages SET is_read = true WHERE id = $1 AND receiver_id = $2'
MarkRead(mid, uid) ==
  [m \in DOMAIN messages |->
     IF m = mid /\ messages[m].receiver = uid
     THEN [messages[m] EXCEPT !.is_read = TRUE]
     ELSE messages[m]]

ReadUpdateDone(s, ok) ==
  /\ reads[s].pc = "update"
  /\ IF ok
     THEN /\ messages' = MarkRead(reads[s].mid, reads[s].uid)
          /\ reads' = [reads EXCEPT ![s].pc = "select"]
     ELSE /\ reads' = [reads EXCEPT ![s] = IdleRead]
          /\ UNCHANGED messages
  /\ out' = {}
  /\ published' = {}
  /\ UNCHANGED presenceVars
  /\ UNCHANGED <<nextId, sends, http, listeners, notifications, delivered>>
  /\ UNCHANGED nonChatVars

\* 'SELECT sender_id FROM chat_messages WHERE id = $1', then the receipt
ReadReceipt(mid) ==
  IF mid \in DOMAIN messages /\ onlineUsers[messages[mid].sender] # None
  THEN RoomEmit(onlineUsers[messages[mid].sender], "message:read", mid)
  ELSE {}

ReadSelectDone(s, ok) ==
  /\ reads[s].pc = "select"
  /\ reads' = [reads EXCEPT ![s] = IdleRead]
  /\ out' = IF ok THEN ReadReceipt(reads[s].mid) ELSE {}
  /\ published' = {}
  /\ UNCHANGED presenceVars
  /\ UNCHANGED <<nextId, messages, sends, http, listeners, notifications,
                 delivered>>
  /\ UNCHANGED nonChatVars

\* ------------------------------------------- GET /chat/messages/:userId
Conversation(a, b) ==
  {m \in DOMAIN messages :
     \/ messages[m].sender = a /\ messages[m].receiver = b
     \/ messages[m].sender = b /\ messages[m].receiver = a}

\* WHERE (sender = a AND receiver = b) OR (sender = b AND receiver = a)
\*   [AND created_at < before] ORDER BY created_at DESC LIMIT limit.
\* AND binds tighter than OR, so the cursor restricts the second
\* alternative only: the messages from b to a.
Page(a, b, before, limit) ==
  LET cand == {m \in Conversation(a, b) :
                 \/ messages[m].sender = a /\ messages[m].receiver = b
                 \/ before = None
                 \/ messages[m].created_at < before}
  IN {m \in cand :
        Cardinality({n \in cand :
                       messages[n].created_at > messages[m].created_at}) < limit}

\* The request does nothing before its SELECT, so the SELECT is evaluated
\* in the step that issues it; the handler resumes in GetSelectDone.
GetStart(cur, other, before, limit) ==
  /\ http.pc = "idle"
  /\ InFlight < MaxInFlight
  /\ http' = [pc |-> "select", cur |-> cur, other |-> other,
              rows |-> Page(cur, other, before, limit)]
  /\ out' = {}
  /\ published' = {}
  /\ UNCHANGED presenceVars
  /\ UNCHANGED <<nextId, messages, sends, reads, listeners, notifications,
                 delivered>>
  /\ UNCHANGED nonChatVars

\* the SELECT returns (or rejects: 500); the UPDATE is awaited
GetSelectDone(ok) ==
  /\ http.pc = "select"
  /\ http' = IF ok THEN [http EXCEPT !.pc = "update"] ELSE IdleHttp
  /\ out' = {}
  /\ published' = {}
  /\ UNCHANGED presenceVars
  /\ UNCHANGED <<nextId, messages, sends, reads, listeners, notifications,
                 delivered>>
  /\ UNCHANGED nonChatVars

\* UPDATE ... SET is_read = true WHERE sender_id = other AND receiver_id = cur
\*   AND is_read = false
MarkConversationRead(cur, other) ==
  [m \in DOMAIN messages |->
     IF messages[m].sender = other /\ messages[m].receiver = cur
     THEN [messages[m] EXCEPT !.is_read = TRUE]
     ELSE messages[m]]

\* res.json({ success: true, data: result.rows.reverse() })
GetUpdateDone(ok) ==
  /\ http.pc = "update"
  /\ http' = IdleHttp
  /\ IF ok
     THEN /\ messages' = MarkConversationRead(http.cur, http.other)
          /\ delivered' = delivered \cup
                          {m \in http.rows : messages[m].receiver = http.cur}
     ELSE UNCHANGED <<messages, delivered>>
  /\ out' = {}
  /\ published' = {}
  /\ UNCHANGED presenceVars
  /\ UNCHANGED <<nextId, sends, reads, listeners, notifications>>
  /\ UNCHANGED nonChatVars

Next ==
  \/ \E s \in Sockets : Connect(s)
  \/ \E s \in Sockets : Disconnect(s)
  \/ \E s \in Sockets, u \in Users : Authenticate(s, u)
  \/ \E s \in Sockets : AuthenticateFail(s)
  \/ \E s \in Sockets, r \in Users \cup {NoSuchUser} : SendStart(s, r)
  \/ \E m \in MsgIds, ok \in BOOLEAN : SendInsertDone(m, ok)
  \/ \E m \in MsgIds, ok \in BOOLEAN : SendSelectDone(m, ok)
  \/ \E m \in MsgIds, ok \in BOOLEAN : SendUpdateDone(m, ok)
  \/ \E s \in Sockets, mid \in MsgIds : ReadStart(s, mid)
  \/ \E s \in Sockets, ok \in BOOLEAN : ReadUpdateDone(s, ok)
  \/ \E s \in Sockets, ok \in BOOLEAN : ReadSelectDone(s, ok)
  \/ \E cur \in Users, other \in Users, before \in {None} \cup MsgIds,
        limit \in {1, DefaultLimit} : GetStart(cur, other, before, limit)
  \/ \E ok \in BOOLEAN : GetSelectDone(ok)
  \/ \E ok \in BOOLEAN : GetUpdateDone(ok)

Spec == Init /\ [][Next]_vars

\* ================================================================ event bus
\* src/src/core/eventBus.js on its own: any caller may subscribe, unsubscribe
\* and emit.  `listeners` is the Map (DOMAIN listeners = its keys); an emit
\* is the async for..of loop over the array stored under the event, which is
\* the array on() pushes to and off() splices.  The loop is suspended at
\* `await handler(data)`; other calls on the bus may run while it is.
\* Emit calls touch nothing but their own loop position, so one call is
\* followed at a time; `emits` keeps the record of the last one.
NumEvents == 1
NumHandlers == 2

BusEvents == 1..NumEvents
Handlers == 1..NumHandlers

\* the elements of a sequence
Range(q) == {q[i] : i \in DOMAIN q}

\* listeners.get(event) || []
ListenersOf(e) == IF e \in DOMAIN listeners THEN listeners[e] ELSE <<>>

\* an emit call: the event, the array position of the handler being awaited,
\* and what the call has done so far (calls: the handlers invoked, in order;
\* threw: one of them threw or rejected; stable: the handlers that were in
\* the array when emit was called and have not been taken out since;
\* result: how the promise returned by emit settled)
IdleEmit ==
  [pc |-> "idle", event |-> None, idx |-> 0, calls |-> <<>>, threw |-> FALSE,
   stable |-> {}, result |-> "none"]

InitBus ==
  /\ listeners = <<>>
  /\ emits = IdleEmit
  /\ connected = {}
  /\ sockUser = [s \in Sockets |-> None]
  /\ onlineUsers = [u \in Users |-> None]
  /\ nextId = 1
  /\ messages = <<>>
  /\ sends = <<>>
  /\ reads = [s \in Sockets |-> IdleRead]
  /\ http = IdleHttp
  /\ notifications = {}
  /\ delivered = {}
  /\ published = {}
  /\ out = {}
  /\ typing = NoTyping
  /\ cleaned = FALSE
  /\ NoSocialActivity
  /\ settings = [u \in Users |-> DefaultSettings]
  /\ NoCacheActivity
  /\ NoPostActivity
  /\ NoFeedActivity

\* this.listeners.get(event).push(handler), after creating the array when
\* the event has no key.  Every eventBus.on(...) of the repository passes a
\* new closure, so a handler is not in the array it is added to.
On(e, h) ==
  /\ h \notin Range(ListenersOf(e))
  /\ listeners' = (e :> Append(ListenersOf(e), h)) @@ listeners
  /\ UNCHANGED emits
  /\ UNCHANGED nonBusVars

\* listeners.splice(listeners.indexOf(handler), 1)
Splice(q, h) ==
  LET i == CHOOSE j \in DOMAIN q : q[j] = h /\ \A k \in 1..(j - 1) : q[k] # h
  IN SubSeq(q, 1, i - 1) \o SubSeq(q, i + 1, Len(q))

\* off(event, handler): nothing happens when the event has no key or the
\* handler is not in the array (index -1)
Off(e, h) ==
  /\ h \in Range(ListenersOf(e))
  /\ listeners' = [listeners EXCEPT ![e] = Splice(@, h)]
  /\ emits' = IF emits.event = e
              THEN [emits EXCEPT !.stable = @ \ {h}]
              ELSE emits
  /\ UNCHANGED nonBusVars

\* the loop body reached with position i: handler(data) is called and awaited
InvokeAt(em, i) ==
  [em EXCEPT !.pc = "running", !.idx = i,
             !.calls = Append(@, ListenersOf(em.event)[i])]

\* the loop has run off the end of the array: the async function returns
EmitReturns(em) == [em EXCEPT !.pc = "done", !.idx = 0, !.result = "resolved"]

\* the for..of loop asks the array iterator for the element at position i
LoopAt(em, i) ==
  IF i <= Len(ListenersOf(em.event)) THEN InvokeAt(em, i) ELSE EmitReturns(em)

\* an emit that stores an empty array under an event that has no key, the
\* way on() does
EmitStartCreatesKey(e) ==
  /\ emits.pc # "running"
  /\ emits' = LoopAt([IdleEmit EXCEPT !.event = e,
                                      !.stable = Range(ListenersOf(e))], 1)
  /\ listeners' = (e :> ListenersOf(e)) @@ listeners
  /\ UNCHANGED nonBusVars

\* emit(event, data) is called: the loop starts and runs up to its first await
EmitStart(e) ==
  /\ emits.pc # "running"
  /\ emits' = LoopAt([IdleEmit EXCEPT !.event = e,
                                      !.stable = Range(ListenersOf(e))], 1)
  /\ UNCHANGED listeners
  /\ UNCHANGED nonBusVars

\* a loop without try/catch: the handler's rejection rejects emit
SettleWithoutCatch(em, ok) ==
  IF ok
  THEN LoopAt(em, em.idx + 1)
  ELSE [em EXCEPT !.pc = "done", !.idx = 0, !.result = "rejected",
                  !.threw = TRUE]

\* the awaited handler returns, or throws and the catch block logs it; the
\* loop goes on with the next position
Settle(em, ok) ==
  LoopAt(IF ok THEN em ELSE [em EXCEPT !.threw = TRUE], em.idx + 1)

HandlerSettles(ok) ==
  /\ emits.pc = "running"
  /\ emits' = Settle(emits, ok)
  /\ UNCHANGED listeners
  /\ UNCHANGED nonBusVars

NextBus ==
  \/ \E e \in BusEvents, h \in Handlers : On(e, h)
  \/ \E e \in BusEvents, h \in Handlers : Off(e, h)
  \/ \E e \in BusEvents : EmitStart(e)
  \/ \E ok \in BOOLEAN : HandlerSettles(ok)

SpecBus == InitBus /\ [][NextBus]_vars

\* ================================================= likes, comments, follows
\* The HTTP handlers that write a like, a comment or a follow and tell the
\* affected user: toggleLike (src/src/controllers/video.controller.ts),
\* createComment (src/unnamed/part_018), followUser
\* (src/src/controllers/user.controller.ts) and the like and comment routes
\* of the post feature with its event listeners
\* (src/src/features/post/index.js).  One public video and one post, both
\* owned by the same user, are acted on by every user.  Requests run one
\* after the other, so a handler is one step; a Notification.create that
\* rejects makes the handler throw at that call, and the error middleware
\* answers 500.  Likes and comments touch no document that follows touch,
\* so the two groups of handlers are explored by a specification each:
\* SpecLikes, and SpecFollow, which adds the connections of the chat
\* feature as the registry of who is online.
VideoOwner == 1
PostAuthor == 1

\* the chat feature and the bus at rest
NoChatActivity ==
  /\ listeners = RegisteredListeners
  /\ emits = <<>>
  /\ connected = {}
  /\ sockUser = [s \in Sockets |-> None]
  /\ onlineUsers = [u \in Users |-> None]
  /\ nextId = 1
  /\ messages = <<>>
  /\ sends = <<>>
  /\ reads = [s \in Sockets |-> IdleRead]
  /\ http = IdleHttp
  /\ notifications = {}
  /\ delivered = {}
  /\ published = {}
  /\ out = {}
  /\ typing = NoTyping
  /\ cleaned = FALSE

InitLikes ==
  /\ NoSocialActivity
  /\ settings = [u \in Users |-> DefaultSettings]
  /\ NoCacheActivity
  /\ NoPostActivity
  /\ NoFeedActivity
  /\ NoChatActivity

InitFollow ==
  /\ NoSocialActivity
  /\ settings \in [Users -> [push : BOOLEAN, email : BOOLEAN]]
  /\ NoCacheActivity
  /\ NoPostActivity
  /\ NoFeedActivity
  /\ NoChatActivity

\* a Notification document
Notif(recipient, sender, type) ==
  [recipient |-> recipient, sender |-> sender, type |-> type]

\* what the handlers below leave alone outside their own documents
SocialFrame ==
  /\ UNCHANGED <<listeners, emits>>
  /\ UNCHANGED <<now, dbViews, vreq, served, dbRev, ureq, lastViews>>
  /\ UNCHANGED <<presenceVars, nextId, messages, sends, reads, http,
                 delivered, out, typing, cleaned>>

\* res.status(status).json(...)
Respond(op, u, status) == [op |-> op, actor |-> u, status |-> status]

\* toggleLike that notifies the video's owner of every like, the owner's
\* own included
ToggleLikeNotifiesOwner(u, notifOk, delOk) ==
  LET liked == u \notin videoLikes
  IN /\ notifOk \/ liked
     /\ videoLikes' = IF liked THEN videoLikes \cup {u} ELSE videoLikes \ {u}
     /\ IF liked /\ ~notifOk
        THEN /\ faults' = {"Notification.create"}
             /\ response' = Respond("toggleLike", u, 500)
             /\ UNCHANGED <<likedPosts, notifications, cache, feeds>>
        ELSE /\ faults' = {}
             /\ response' = Respond("toggleLike", u, 200)
             /\ cache' = DeleteCache(delOk)
             /\ feeds' = ClearPattern("videos:user:", VideoOwner, delOk)
             /\ likedPosts' = IF liked THEN likedPosts \cup {u}
                              ELSE likedPosts \ {u}
             /\ notifications' =
                  IF liked
                  THEN notifications \cup {Notif(VideoOwner, u, "like")}
                  ELSE notifications
     /\ published' = {}
     /\ emails' = {}
     /\ UNCHANGED <<commenters, following, followers, settings, postLikes>>
     /\ SocialFrame
     /\ UNCHANGED <<postVars, feedServed>>

\* POST /api/v1/videos/:id/like: video.toggleLike saves the video, then the
\* user's likedPosts is changed in memory, the owner is notified of a like by
\* somebody else, and only then user.save() runs; last the cache is cleared
\* with deleteCache(`video:${id}`) and clearPattern(`videos:user:${owner}:*`)
ToggleLike(u, notifOk, delOk) ==
  LET liked == u \notin videoLikes
      notifies == liked /\ VideoOwner # u
  IN /\ notifOk \/ notifies
     /\ videoLikes' = IF liked THEN videoLikes \cup {u} ELSE videoLikes \ {u}
     /\ IF notifies /\ ~notifOk
        THEN /\ faults' = {"Notification.create"}
             /\ response' = Respond("toggleLike", u, 500)
             /\ UNCHANGED <<likedPosts, notifications, cache, feeds>>
        ELSE /\ faults' = {}
             /\ response' = Respond("toggleLike", u, 200)
             /\ cache' = DeleteCache(delOk)
             /\ feeds' = ClearPattern("videos:user:", VideoOwner, delOk)
             /\ likedPosts' = IF liked THEN likedPosts \cup {u}
                              ELSE likedPosts \ {u}
             /\ notifications' =
                  IF notifies
                  THEN notifications \cup {Notif(VideoOwner, u, "like")}
                  ELSE notifications
     /\ published' = {}
     /\ emails' = {}
     /\ UNCHANGED <<commenters, following, followers, settings, postLikes>>
     /\ SocialFrame
     /\ UNCHANGED <<postVars, feedServed>>

\* the Notification.create calls of createComment, in order: the video's
\* owner, then the author of the comment replied to; none at all when the
\* commenter owns the video
CommentNotifs(u, parentAuthor) ==
  IF VideoOwner = u
  THEN <<>>
  ELSE <<Notif(VideoOwner, u, "comment")>>
       \o (IF parentAuthor # None /\ parentAuthor # u
           THEN <<Notif(parentAuthor, u, "comment")>>
           ELSE <<>>)

\* POST /api/v1/comments, as a reply when parentAuthor is the author of a
\* stored comment; failAt is the Notification.create call that rejects
\* (0: none does)
CreateComment(u, parentAuthor, failAt) ==
  LET calls == CommentNotifs(u, parentAuthor)
      made == IF failAt = 0 THEN Len(calls) ELSE failAt - 1
  IN /\ parentAuthor \in {None} \cup commenters
     /\ failAt <= Len(calls)
     /\ commenters' = commenters \cup {u}
     /\ notifications' = notifications \cup {calls[i] : i \in 1..made}
     /\ faults' = IF failAt = 0 THEN {} ELSE {"Notification.create"}
     /\ response' = Respond("createComment", u,
                            IF failAt = 0 THEN 201 ELSE 500)
     /\ published' = {}
     /\ emails' = {}
     /\ UNCHANGED <<videoLikes, likedPosts, following, followers, settings,
                    postLikes>>
     /\ SocialFrame
     /\ UNCHANGED <<postVars, feedVars>>
     /\ UNCHANGED cache

\* followUser answering 400 to a user who follows themself
FollowSelf(a) ==
  /\ response' = Respond("followUser", a, 400)
  /\ faults' = {}
  /\ emails' = {}
  /\ published' = {}
  /\ UNCHANGED <<videoLikes, likedPosts, commenters, following, followers,
                 settings, postLikes, notifications>>
  /\ SocialFrame
  /\ UNCHANGED <<postVars, feedVars>>
  /\ UNCHANGED cache

\* the condition under which followUser calls sendEmail for the followed user
EmailsFollowed(b) == settings[b].push /\ settings[b].email

\* POST /api/v1/users/:userId/follow by a for b: both documents are changed
\* in memory, the notification and the email are awaited, and only then are
\* the two documents saved.  sendEmail catches its own errors.
FollowUser(a, b, notifOk, emailOk) ==
  LET isFollowing == <<a, b>> \in following
      notifies == ~isFollowing /\ settings[b].push
      mails == ~isFollowing /\ EmailsFollowed(b)
  IN /\ a # b
     /\ notifOk \/ notifies
     /\ emailOk \/ (mails /\ notifOk)
     /\ IF notifies /\ ~notifOk
        THEN /\ faults' = {"Notification.create"}
             /\ response' = Respond("followUser", a, 500)
             /\ emails' = {}
             /\ UNCHANGED <<following, followers, notifications>>
        ELSE /\ faults' = IF emailOk THEN {} ELSE {"sendMail"}
             /\ response' = Respond("followUser", a, 200)
             /\ emails' = IF mails THEN {b} ELSE {}
             /\ following' = IF isFollowing THEN following \ {<<a, b>>}
                             ELSE following \cup {<<a, b>>}
             /\ followers' = IF isFollowing THEN followers \ {<<a, b>>}
                             ELSE followers \cup {<<a, b>>}
             /\ notifications' =
                  IF notifies
                  THEN notifications \cup {Notif(b, a, "follow")}
                  ELSE notifications
     /\ published' = {}
     /\ UNCHANGED <<videoLikes, likedPosts, commenters, settings, postLikes>>
     /\ SocialFrame
     /\ UNCHANGED <<postVars, feedVars>>
     /\ UNCHANGED cache

\* an event handed to the bus by the post feature
PostEvent(event, actor, userId) ==
  [event |-> event, actor |-> actor, userId |-> userId]

\* eventBus.on('post.liked'): the post's author is looked up and, unless the
\* liker is the author, 'notification.create' is emitted; a failed lookup is
\* caught and logged
OnPostLiked(u, lookupOk) ==
  IF lookupOk /\ PostAuthor # u
  THEN {PostEvent("notification.create", u, PostAuthor)}
  ELSE {}

\* POST /posts/:id/like of the post feature: the likes row of an existing
\* post is toggled and 'post.liked' or 'post.unliked' is emitted before the
\* response; the cache is cleared after the response has been sent
LikePost(u, lookupOk) ==
  LET liked == u \notin postLikes
  IN /\ post.exists
     /\ lookupOk \/ liked
     /\ postLikes' = IF liked THEN postLikes \cup {u} ELSE postLikes \ {u}
     /\ published' = IF liked
                     THEN {PostEvent("post.liked", u, None)}
                          \cup OnPostLiked(u, lookupOk)
                     ELSE {PostEvent("post.unliked", u, None)}
     /\ response' = Respond("likePost", u, 200)
     /\ faults' = IF lookupOk THEN {} ELSE {"db.query"}
     /\ emails' = {}
     /\ UNCHANGED <<videoLikes, likedPosts, commenters, following, followers,
                    settings, notifications>>
     /\ postCache' = IF ClearPatternThrows
                     THEN postCache
                     ELSE CacheDel(postCache, CacheMatching({"posts:", "post:"}))
     /\ UNCHANGED <<post, postServed, feedVars>>
     /\ SocialFrame
     /\ UNCHANGED cache

\* eventBus.on('comment.created')
OnCommentCreated(u, postAuthorId) ==
  IF u # postAuthorId
  THEN {PostEvent("notification.create", u, postAuthorId)}
  ELSE {}

\* POST /posts/:id/comments of the post feature
AddPostComment(u) ==
  /\ published' = {PostEvent("comment.created", u, None)}
                  \cup OnCommentCreated(u, PostAuthor)
  /\ response' = Respond("addComment", u, 201)
  /\ faults' = {}
  /\ emails' = {}
  /\ UNCHANGED <<videoLikes, likedPosts, commenters, following, followers,
                 settings, postLikes, notifications>>
  /\ SocialFrame
  /\ UNCHANGED <<postVars, feedVars>>
  /\ UNCHANGED cache

NextLikes ==
  \/ \E u \in Users, notifOk \in BOOLEAN, delOk \in BOOLEAN :
       ToggleLike(u, notifOk, delOk)
  \/ \E u \in Users, parentAuthor \in {None} \cup Users, failAt \in 0..2 :
       CreateComment(u, parentAuthor, failAt)
  \/ \E u \in Users, lookupOk \in BOOLEAN : LikePost(u, lookupOk)
  \/ \E u \in Users : AddPostComment(u)

SpecLikes == InitLikes /\ [][NextLikes]_vars

NextFollow ==
  \/ \E s \in Sockets : Connect(s)
  \/ \E s \in Sockets, u \in Users : Authenticate(s, u)
  \/ \E s \in Sockets : Disconnect(s)
  \/ \E a \in Users : FollowSelf(a)
  \/ \E a \in Users, b \in Users, notifOk \in BOOLEAN, emailOk \in BOOLEAN :
       FollowUser(a, b, notifOk, emailOk)

SpecFollow == InitFollow /\ [][NextFollow]_vars

\* ============================================================ video cache
\* getVideo (src/src/controllers/video.controller.ts) reads through the
\* Redis helpers of src/unnamed/part_017 under the key video:<id>.  The
\* store keeps an entry until `exp`; time is counted in ticks of half the
\* one-hour ttl.  An entry remembers when its data was read from the
\* database (loadedAt).  getCache and setCache catch the errors of the
\* store: a failed get is a miss, a failed set changes nothing.
VideoTtl == 2
MaxTime == 5
MaxViews == 4
MaxEdits == 1

\* video.toObject(): the data read from the database at loadedAt, with the
\* Date and ObjectId values of a mongoose document
Document(loadedAt, views, rev) ==
  [loadedAt |-> loadedAt, views |-> views, rev |-> rev, form |-> "document"]

\* JSON.parse(JSON.stringify(v)): a Date or an ObjectId comes back as a
\* string
JsonRoundTrip(v) == [v EXCEPT !.form = "json"]

\* the value of an entry, without its expiry
ValueOf(entry) ==
  [loadedAt |-> entry.loadedAt, views |-> entry.views, rev |-> entry.rev,
   form |-> entry.form]

\* setCache(key, v, 3600): redisClient.setex(key, ttl, JSON.stringify(v)),
\* whose error is caught and logged
SetCache(ok, v) ==
  IF ok
  THEN LET s == JsonRoundTrip(v)
       IN [exp |-> now + VideoTtl, loadedAt |-> s.loadedAt,
           views |-> s.views, rev |-> s.rev, form |-> s.form]
  ELSE cache

\* redisClient.get(key): the entry, unless it is missing or has expired
GetCache(ok) == IF ok /\ now < cache.exp THEN cache ELSE NoEntry

\* what the cache handlers leave alone
CacheFrame ==
  /\ UNCHANGED <<chatVars, listeners, emits, socialVars, postVars, feedVars,
                 typing, cleaned>>

\* time passes; the store drops an entry that reaches its expiry
Tick ==
  /\ now < MaxTime
  /\ now' = now + 1
  /\ cache' = IF cache.exp <= now + 1 THEN NoEntry ELSE cache
  /\ served' = NothingServed
  /\ UNCHANGED <<dbViews, vreq, dbRev, ureq, lastViews>>
  /\ CacheFrame

\* GET /api/v1/videos/:id of a public video: getCache is awaited.  On a hit
\* the cached object gets views + 1, is written back with the full ttl
\* (not awaited) and is the response; on a miss the database is asked.
GetVideo(getOk, setOk) ==
  LET hit == GetCache(getOk)
  IN /\ vreq.pc = "idle"
     /\ IF hit # NoEntry
        THEN /\ hit.views < MaxViews
             /\ cache' = SetCache(setOk, [ValueOf(hit) EXCEPT !.views = @ + 1])
             /\ served' = [from |-> "cache", loadedAt |-> hit.loadedAt,
                           views |-> hit.views + 1]
             /\ lastViews' = hit.views + 1
             /\ UNCHANGED vreq
        ELSE /\ setOk
             /\ dbViews < MaxViews
             /\ vreq' = [pc |-> "find", doc |-> 0, rev |-> 0]
             /\ served' = NothingServed
             /\ UNCHANGED <<cache, lastViews>>
     /\ UNCHANGED <<now, dbViews, dbRev, ureq>>
     /\ CacheFrame

\* Video.findById(id) returns the document
GetVideoFound ==
  /\ vreq.pc = "find"
  /\ vreq' = [pc |-> "incr", doc |-> dbViews, rev |-> dbRev]
  /\ served' = NothingServed
  /\ UNCHANGED <<now, cache, dbViews, dbRev, ureq, lastViews>>
  /\ CacheFrame

\* video.incrementViews(): this.views += 1 on that document, then save(),
\* which writes the one modified path
GetVideoIncremented ==
  /\ vreq.pc = "incr"
  /\ dbViews' = vreq.doc + 1
  /\ vreq' = [vreq EXCEPT !.pc = "set", !.doc = @ + 1]
  /\ served' = NothingServed
  /\ UNCHANGED <<now, cache, dbRev, ureq, lastViews>>
  /\ CacheFrame

\* setCache(cacheKey, videoData, 3600) is awaited, then the response is sent
GetVideoCached(setOk) ==
  /\ vreq.pc = "set"
  /\ cache' = SetCache(setOk, Document(now, vreq.doc, vreq.rev))
  /\ served' = [from |-> "db", loadedAt |-> now, views |-> vreq.doc]
  /\ lastViews' = vreq.doc
  /\ vreq' = IdleVideoRequest
  /\ UNCHANGED <<now, dbViews, dbRev, ureq>>
  /\ CacheFrame

\* PUT /api/v1/videos/:id by the owner, up to the point where
\* Video.findByIdAndUpdate(id, updateData) has resolved: the fields of the
\* request are set on the stored document, its views are not touched
UpdateVideoWritten ==
  /\ ureq.pc = "idle"
  /\ dbRev <= MaxEdits
  /\ dbRev' = dbRev + 1
  /\ ureq' = [pc |-> "clear"]
  /\ served' = NothingServed
  /\ UNCHANGED <<now, cache, dbViews, vreq, lastViews>>
  /\ CacheFrame

\* the rest of updateVideo: deleteCache(`video:${id}`),
\* clearPattern(`videos:user:${owner}:*`), clearPattern('videos:trending:*')
\* and the response
UpdateVideoCleared(delOk) ==
  /\ ureq.pc = "clear"
  /\ cache' = DeleteCache(delOk)
  /\ feeds' = ClearPattern("videos:trending:", None, delOk)
  /\ ureq' = IdleUpdate
  /\ served' = NothingServed
  /\ UNCHANGED <<now, dbViews, vreq, dbRev, lastViews, feedServed>>
  /\ UNCHANGED <<chatVars, listeners, emits, socialVars, postVars, typing, cleaned>>

NextCache ==
  \/ Tick
  \/ \E getOk \in BOOLEAN, setOk \in BOOLEAN : GetVideo(getOk, setOk)
  \/ GetVideoFound
  \/ GetVideoIncremented
  \/ \E setOk \in BOOLEAN : GetVideoCached(setOk)
  \/ UpdateVideoWritten
  \/ \E delOk \in BOOLEAN : UpdateVideoCleared(delOk)

InitCache ==
  /\ NoCacheActivity
  /\ NoPostActivity
  /\ NoFeedActivity
  /\ NoSocialActivity
  /\ settings = [u \in Users |-> DefaultSettings]
  /\ NoChatActivity

SpecCache == InitCache /\ [][NextCache]_vars

\* ============================================================= post cache
\* The routes of the post feature (src/src/features/post/index.js) and the
\* cache object of the container (src/src/core/router.js).  One post, written
\* by PostAuthor, under one slug; `post.rev` counts the writes to its row,
\* and a cached value remembers the revision and the likes it was built
\* from.  Requests run one after the other, so a handler is one step.  The
\* cache object does not catch the errors of the store: a failed call
\* throws into the handler's catch, which answers 500.
MaxRevs == 3

\* what the SELECT of GET /posts or GET /posts/:slug returns now
PostData ==
  [rev |-> post.rev, likes |-> IF post.exists THEN postLikes ELSE {}]

\* redis.setex(key, ttl, JSON.stringify(value))
CacheSet(c, key, value) == [c EXCEPT ![key] = value]

\* what a post route leaves alone
PostFrame ==
  /\ SocialFrame
  /\ UNCHANGED feedVars
  /\ emails' = {}
  /\ UNCHANGED <<videoLikes, likedPosts, commenters, following, followers,
                 settings, notifications, cache>>

\* res.json of a GET route
Serve(key, source, data) == [key |-> key, source |-> source, data |-> data]

\* the store drops an entry whose ttl (300 s for the listing, 600 s for the
\* post) has run out
Expire(k) ==
  /\ postCache[k] # Miss
  /\ postCache' = CacheSet(postCache, k, Miss)
  /\ response' = NoResponse
  /\ published' = {}
  /\ faults' = {}
  /\ UNCHANGED <<post, postLikes, postServed>>
  /\ PostFrame

\* the read-through of both GET routes: the cached value when there is one,
\* else the rows of the database, cached before they are sent
ReadThrough(op, key, getOk, setOk) ==
  LET cached == postCache[key]
  IN /\ published' = {}
     /\ PostFrame
     /\ IF ~getOk
        THEN /\ faults' = {"cache.get"}
             /\ response' = Respond(op, None, 500)
             /\ UNCHANGED <<postCache, postServed>>
        ELSE IF cached # Miss
        THEN /\ setOk
             /\ faults' = {}
             /\ response' = Respond(op, None, 200)
             /\ postServed' = Serve(key, "cache", cached)
             /\ UNCHANGED postCache
        ELSE IF ~setOk
        THEN /\ faults' = {"cache.set"}
             /\ response' = Respond(op, None, 500)
             /\ UNCHANGED <<postCache, postServed>>
        ELSE /\ faults' = {}
             /\ response' = Respond(op, None, 200)
             /\ postCache' = CacheSet(postCache, key, PostData)
             /\ postServed' = Serve(key, "database", PostData)

\* GET /posts
GetPosts(getOk, setOk) ==
  /\ ReadThrough("getPosts", "posts:page", getOk, setOk)
  /\ UNCHANGED <<post, postLikes>>

\* GET /posts/:slug: a slug without a published row is answered 404 after
\* the cache was asked
GetPost(getOk, setOk) ==
  /\ IF getOk /\ postCache["post:slug"] = Miss /\ ~post.exists
     THEN /\ setOk
          /\ response' = Respond("getPost", None, 404)
          /\ published' = {}
          /\ faults' = {}
          /\ UNCHANGED <<postCache, postServed>>
          /\ PostFrame
     ELSE ReadThrough("getPost", "post:slug", getOk, setOk)
  /\ UNCHANGED <<post, postLikes>>

\* POST /posts: INSERT, emit 'post.created', then cache.del('posts:all') and
\* cache.del(`user:${userId}:posts`)
CreatePost(delOk) ==
  /\ ~post.exists
  /\ post.rev < MaxRevs
  /\ post' = [exists |-> TRUE, rev |-> post.rev + 1]
  /\ published' = {PostEvent("post.created", PostAuthor, None)}
  /\ IF delOk
     THEN /\ postCache' = CacheDel(postCache, {"posts:all", "user:posts"})
          /\ faults' = {}
          /\ response' = Respond("createPost", PostAuthor, 201)
     ELSE /\ faults' = {"cache.del"}
          /\ response' = Respond("createPost", PostAuthor, 500)
          /\ UNCHANGED postCache
  /\ UNCHANGED <<postLikes, postServed>>
  /\ PostFrame

\* the cache calls and the rest of PUT /posts/:id and DELETE /posts/:id
\* after the row was written: clearPattern comes first
ClearAfterWrite(op, event, u, keys) ==
  IF ClearPatternThrows
  THEN /\ faults' = {"cache.clearPattern"}
       /\ response' = Respond(op, u, 500)
       /\ published' = {}
       /\ UNCHANGED postCache
  ELSE /\ faults' = {}
       /\ response' = Respond(op, u, 200)
       /\ published' = {PostEvent(event, u, None)}
       /\ postCache' = CacheDel(postCache, keys)

\* a request on a post by somebody who is not its author: 403
NotAuthorized(op, u) ==
  /\ response' = Respond(op, u, 403)
  /\ published' = {}
  /\ faults' = {}
  /\ UNCHANGED <<post, postCache>>

\* PUT /posts/:id: UPDATE, clearPattern('posts:*'), clearPattern('post:*'),
\* del(`user:${userId}:posts`), emit 'post.updated'
UpdatePost(u) ==
  /\ post.exists
  /\ post.rev < MaxRevs
  /\ IF u # PostAuthor
     THEN NotAuthorized("updatePost", u)
     ELSE /\ post' = [post EXCEPT !.rev = @ + 1]
          /\ ClearAfterWrite("updatePost", "post.updated", u,
                             CacheMatching({"posts:", "post:"})
                               \cup {"user:posts"})
  /\ UNCHANGED <<postLikes, postServed>>
  /\ PostFrame

\* DELETE /posts/:id: DELETE, clearPattern('posts:*'), del(`post:${slug}`),
\* del(`user:${userId}:posts`), emit 'post.deleted'
DeletePost(u) ==
  /\ post.exists
  /\ post.rev < MaxRevs
  /\ IF u # PostAuthor
     THEN NotAuthorized("deletePost", u)
     ELSE /\ post' = [exists |-> FALSE, rev |-> post.rev + 1]
          /\ ClearAfterWrite("deletePost", "post.deleted", u,
                             CacheMatching({"posts:"})
                               \cup {"post:slug", "user:posts"})
  /\ UNCHANGED <<postLikes, postServed>>
  /\ PostFrame

NextPosts ==
  \/ \E k \in PostKeys : Expire(k)
  \/ \E getOk \in BOOLEAN, setOk \in BOOLEAN : GetPosts(getOk, setOk)
  \/ \E getOk \in BOOLEAN, setOk \in BOOLEAN : GetPost(getOk, setOk)
  \/ \E delOk \in BOOLEAN : CreatePost(delOk)
  \/ \E u \in Users : UpdatePost(u)
  \/ \E u \in Users : DeletePost(u)
  \/ \E u \in Users, lookupOk \in BOOLEAN : LikePost(u, lookupOk)

InitPosts ==
  /\ NoPostActivity
  /\ NoFeedActivity
  /\ NoCacheActivity
  /\ NoSocialActivity
  /\ settings = [u \in Users |-> DefaultSettings]
  /\ NoChatActivity

SpecPosts == InitPosts /\ [][NextPosts]_vars

\* ============================================================ feed cache
\* getFeed (src/unnamed/part_019) and getTrendingVideos
\* (src/src/controllers/video.controller.ts) read through the Redis helpers
\* like getVideo does.  The video is public, ready and published within the
\* week, so the trending query lists it, and so does the feed of everybody
\* but its owner: by the following query or by the trending supplement,
\* both of which leave out the reader's own videos.  A cached listing
\* carries the likes array the video had when it was read.

\* the listing a query returns now for the reader (None: getTrendingVideos)
Listing(reader) ==
  IF reader = VideoOwner
  THEN [cached |-> TRUE, listed |-> FALSE, likes |-> {}]
  ELSE [cached |-> TRUE, listed |-> TRUE, likes |-> videoLikes]

\* what a listing handler leaves alone
FeedFrame ==
  /\ UNCHANGED <<chatVars, listeners, emits, socialVars, postVars, typing, cleaned>>
  /\ UNCHANGED cacheVars

\* the store drops a listing whose ttl (120 s, 300 s or 600 s) has run out
FeedExpire(k) ==
  /\ feeds[k].cached
  /\ feeds' = [feeds EXCEPT ![k] = NoListing]
  /\ UNCHANGED feedServed
  /\ FeedFrame

\* getCache(key), and on a miss the query followed by setCache(key, ...)
ListingThrough(key, reader, getOk, setOk) ==
  LET hit == IF getOk THEN feeds[key] ELSE NoListing
  IN IF hit.cached
     THEN /\ setOk
          /\ feedServed' = [key |-> key, source |-> "cache", data |-> hit]
          /\ UNCHANGED feeds
     ELSE /\ feeds' = IF setOk
                      THEN [feeds EXCEPT ![key] = Listing(reader)]
                      ELSE feeds
          /\ feedServed' = [key |-> key, source |-> "db",
                            data |-> Listing(reader)]

\* GET /api/v1/feed
GetFeed(u, getOk, setOk) ==
  /\ ListingThrough(FeedKey(u), u, getOk, setOk)
  /\ FeedFrame

\* GET /api/v1/videos/trending
GetTrendingVideos(getOk, setOk) ==
  /\ ListingThrough(TrendingKey, None, getOk, setOk)
  /\ FeedFrame

NextFeed ==
  \/ \E k \in FeedKeys : FeedExpire(k)
  \/ \E u \in Users, getOk \in BOOLEAN, setOk \in BOOLEAN :
       GetFeed(u, getOk, setOk)
  \/ \E getOk \in BOOLEAN, setOk \in BOOLEAN : GetTrendingVideos(getOk, setOk)
  \/ \E u \in Users, notifOk \in BOOLEAN, delOk \in BOOLEAN :
       ToggleLike(u, notifOk, delOk)

InitFeed ==
  /\ NoFeedActivity
  /\ NoPostActivity
  /\ NoCacheActivity
  /\ NoSocialActivity
  /\ settings = [u \in Users |-> DefaultSettings]
  /\ NoChatActivity

SpecFeed == InitFeed /\ [][NextFeed]_vars

\* ================================================= post feature on the bus
\* The post feature subscribes three closures when it registers and its
\* cleanup() calls eventBus.off(event) for the same three events
\* (src/src/features/post/index.js).  Its routes emit the events; any other
\* module may subscribe to them and unsubscribe its own handler.  Emit calls
\* are followed one at a time, as in the event bus above.
PostFeatureEvents == {"post.created", "post.liked", "comment.created"}

\* the closure the post feature passes to eventBus.on for the event
PostHandler(e) == <<"post feature", e>>

\* a handler of another module
OtherHandler == <<"other module", "any">>

\* the second argument of a call that passes one argument
Undefined == <<"undefined", "undefined">>

\* the three eventBus.on(...) calls of the post feature
PostListeners == [e \in PostFeatureEvents |-> <<PostHandler(e)>>]

\* off(event, handler) as a function of the Map: the array is spliced at
\* indexOf(handler) unless that is -1
OffCall(ls, e, h) ==
  IF e \in DOMAIN ls /\ h \in Range(ls[e])
  THEN [ls EXCEPT ![e] = Splice(@, h)]
  ELSE ls

\* cleanup(): eventBus.off('post.created'); eventBus.off('post.liked');
\* eventBus.off('comment.created')
Cleanup ==
  /\ ~cleaned
  /\ cleaned' = TRUE
  /\ listeners' = OffCall(OffCall(OffCall(listeners,
                                          "post.created", Undefined),
                                  "post.liked", Undefined),
                          "comment.created", Undefined)
  /\ emits' = IF emits.event \in DOMAIN listeners'
              THEN [emits EXCEPT
                      !.stable = @ \cap Range(listeners'[emits.event])]
              ELSE emits
  /\ UNCHANGED <<chatVars, socialVars, cacheVars, postVars, feedVars, typing>>

NextPostBus ==
  \/ Cleanup
  \/ \E e \in PostFeatureEvents : On(e, OtherHandler)
  \/ \E e \in PostFeatureEvents : Off(e, OtherHandler)
  \/ \E e \in PostFeatureEvents : EmitStart(e)
  \/ \E ok \in BOOLEAN : HandlerSettles(ok)

InitPostBus ==
  /\ listeners = PostListeners
  /\ emits = [IdleEmit EXCEPT !.event = "none"]
  /\ cleaned = FALSE
  /\ typing = NoTyping
  /\ connected = {}
  /\ sockUser = [s \in Sockets |-> None]
  /\ onlineUsers = [u \in Users |-> None]
  /\ nextId = 1
  /\ messages = <<>>
  /\ sends = <<>>
  /\ reads = [s \in Sockets |-> IdleRead]
  /\ http = IdleHttp
  /\ notifications = {}
  /\ delivered = {}
  /\ published = {}
  /\ out = {}
  /\ NoSocialActivity
  /\ settings = [u \in Users |-> DefaultSettings]
  /\ NoCacheActivity
  /\ NoPostActivity
  /\ NoFeedActivity

SpecPostBus == InitPostBus /\ [][NextPostBus]_vars

\* ================================================================ claims
\* the open sockets authenticated as user u
SocketsOf(u) == {s \in connected : sockUser[s] = u}

\* onlineUsers.has(userId)
IsOnline(u) == onlineUsers[u] # None

\* the handler of message m returns in this step
Completes(m) == m \in DOMAIN sends /\ m \notin DOMAIN sends'

\* C1: at every instant a user has an onlineUsers entry if and only if at
\* least one open socket is authenticated as that user.
C1_OnlineIffConnected ==
  \A u \in Users : IsOnline(u) <=> SocketsOf(u) # {}

\* C2: when one of a user's connections closes while another connection of
\* the same user stays open, no user:offline is broadcast for the user and
\* the user remains online.
C2_NoOfflineWhileConnected ==
  [][\A u \in Users :
       (/\ \E s \in connected \ connected' : sockUser[s] = u
        /\ \E t \in connected' : sockUser'[t] = u)
       => /\ onlineUsers'[u] # None
          /\ \A e \in out' : ~(e.ev = "user:offline" /\ e.arg = u)]_vars

\* C3: a message that is read has been delivered to its receiver at or
\* before the moment it became read.
C3_ReadImpliesDelivered ==
  \A m \in DOMAIN messages : messages[m].is_read => m \in delivered

\* C4: message:send never sets the read flag of the message it sends: the
\* step in which the handler returns leaves the flag as it was.
C4_SendNeverSetsRead ==
  [][\A m \in DOMAIN sends \cap DOMAIN messages :
       (Completes(m) \/ sends'[m] # sends[m])
       => messages'[m].is_read = messages[m].is_read]_vars

\* C5: a send routed while the receiver has no open socket leaves the
\* message unread, pushes no message:receive to any connection and, when the
\* handler returns, a Notification record for the receiver exists.
C5_OfflineSendNotifies ==
  [][\A m \in DOMAIN sends :
       (/\ sends[m].pc = "select"
        /\ SocketsOf(sends[m].receiver) = {}
        /\ ~IsOnline(sends[m].receiver)
        /\ Completes(m)
        /\ [ev |-> "message:sent", to |-> sends[m].sock, arg |-> m] \in out')
       => /\ ~messages'[m].is_read
          /\ m \notin delivered'
          /\ \A e \in out' : e.ev # "message:receive"
          /\ \E n \in notifications' :
               n.user = sends[m].receiver /\ n.mid = m]_vars

\* C6: every message:send whose message was persisted returns with
\* message:sent emitted to the sender's socket, whatever happens to the
\* steps directed at the receiver.
C6_PersistedIsAcked ==
  [][\A m \in DOMAIN sends \cap DOMAIN messages :
       Completes(m)
       => [ev |-> "message:sent", to |-> sends[m].sock, arg |-> m] \in out']_vars

\* the request record of the message:read handler on socket s that takes a
\* step now
ReadStep(s) == IF reads[s].pc = "idle" THEN reads'[s] ELSE reads[s]

\* C7: no step of a message:read issued by a user other than the message's
\* receiver changes the message's read flag.
C7_OnlyReceiverMarksRead ==
  [][\A s \in Sockets, m \in DOMAIN messages :
       (/\ reads'[s] # reads[s]
        /\ ReadStep(s).mid = m
        /\ ReadStep(s).uid # messages[m].receiver)
       => /\ m \in DOMAIN messages'
          /\ messages'[m].is_read = messages[m].is_read]_vars

\* a message:read of a non-receiver has passed its UPDATE on an unread message
C7_Witness ==
  \E s \in Sockets :
    /\ reads[s].pc = "select"
    /\ reads[s].mid \in DOMAIN messages
    /\ reads[s].uid # messages[reads[s].mid].receiver
    /\ ~messages[reads[s].mid].is_read

\* C8: a message:read of an existing message by a user who is not its
\* receiver ends with an error emitted to the calling socket.
C8_NonReceiverGetsError ==
  [][\A s \in Sockets :
       (/\ reads[s].pc = "select"
        /\ reads'[s].pc = "idle"
        /\ reads[s].mid \in DOMAIN messages
        /\ reads[s].uid # messages[reads[s].mid].receiver)
       => \E e \in out' : e.ev = "error" /\ e.to = s]_vars

\* C9: a message:read receipt is emitted only by a message:read of the
\* message's receiver that marked the message read, and only to a socket of
\* the message's sender.
C9_ReceiptOnlyOnSuccess ==
  [][\A e \in out' :
       e.ev = "message:read"
       => /\ e.arg \in DOMAIN messages
          /\ sockUser[e.to] = messages[e.arg].sender
          /\ \E s \in Sockets :
               /\ reads[s].pc = "select"
               /\ reads'[s].pc = "idle"
               /\ reads[s].mid = e.arg
               /\ reads[s].uid = messages[e.arg].receiver
               /\ messages[e.arg].is_read]_vars

\* C10: when a send pushes message:receive, every open socket authenticated
\* as the receiver gets it.
C10_PushReachesEverySocket ==
  [][\A m \in DOMAIN sends :
       (/\ sends[m].pc = "select"
        /\ m \in DOMAIN sends'
        /\ sends'[m].pc = "update")
       => \A t \in SocketsOf(sends[m].receiver) :
            [ev |-> "message:receive", to |-> t, arg |-> m] \in out']_vars

\* the send handler of message m takes the live branch in this step: it
\* found an onlineUsers entry for the receiver and pushed to that socket id
PushesLive(m) ==
  /\ m \in DOMAIN sends
  /\ sends[m].pc = "select"
  /\ m \in DOMAIN sends'
  /\ sends'[m].pc = "update"

\* C11: a send takes the live branch (push, then the read flag) only if, at
\* the moment of the push, at least one open socket is authenticated as the
\* receiver.
C11_LiveRouteNeedsSocket ==
  [][\A m \in MsgIds :
       PushesLive(m) => SocketsOf(sends[m].receiver) # {}]_vars

AboutMessage(e) == e.ev \in {"message:receive", "message:sent"}

\* C13: message:receive, message:sent and chat.message.sent occur for a
\* message only in a step that finds its chat_messages row already inserted,
\* and the step in which the INSERT fails emits none of them.
C13_PersistedBeforeAnnounced ==
  [][/\ \A e \in out' : AboutMessage(e) => e.arg \in DOMAIN messages
     /\ \A p \in published' : p.mid \in DOMAIN messages
     /\ \A m \in MsgIds :
          (m \in DOMAIN sends /\ sends[m].pc = "insert" /\ Completes(m))
          => /\ m \notin DOMAIN messages'
             /\ \A e \in out' : ~AboutMessage(e)
             /\ published' = {}]_vars

\* a message was acknowledged and announced on the bus; its row exists
C13_Witness ==
  \E m \in DOMAIN messages :
    /\ [event |-> "chat.message.sent", mid |-> m] \in published
    /\ \E e \in out : e.ev = "message:sent" /\ e.arg = m

\* how often the emit call invoked handler h
TimesInvoked(h) == Cardinality({i \in DOMAIN emits.calls : emits.calls[i] = h})

\* C14: when a handler threw or rejected during an emit, every handler that
\* was subscribed to the event for the whole of that emit has been invoked
\* exactly once by the time the emit returns.
C14_OthersStillInvokedOnce ==
  (emits.pc = "done" /\ emits.threw)
  => \A h \in emits.stable : TimesInvoked(h) = 1

\* an emit call is made in this step
EmitCalled == emits.pc # "running" /\ emits' # emits /\ emits'.pc # "idle"

\* C15: an emit of an event without subscribers returns at once, resolved,
\* having invoked no handler and leaving the listeners Map as it was.
C15_EmitWithoutSubscribers ==
  [][(EmitCalled /\ ListenersOf(emits'.event) = <<>>)
     => /\ emits'.pc = "done"
        /\ emits'.calls = <<>>
        /\ emits'.result = "resolved"
        /\ listeners' = listeners]_vars

\* an emit found no subscriber and has returned
C15_Witness ==
  /\ emits.pc = "done"
  /\ emits.stable = {}
  /\ emits.calls = <<>>
  /\ emits.result = "resolved"

\* the position of handler h in the array of event e
PositionOf(e, h) == CHOOSE i \in DOMAIN listeners[e] : listeners[e][i] = h

\* C16: on() puts a handler behind the handlers registered before it, an
\* emit invokes the handlers that stay subscribed in that order, and the
\* promise of emit never rejects, whatever the handlers do.
C16_RegistrationOrderNoReject ==
  [][/\ \A e \in DOMAIN listeners' :
          Len(ListenersOf(e)) < Len(listeners'[e])
          => SubSeq(listeners'[e], 1, Len(ListenersOf(e))) = ListenersOf(e)
     /\ emits'.result # "rejected"
     /\ \A i, j \in DOMAIN emits'.calls :
          (i < j /\ emits'.calls[i] \in emits'.stable
                 /\ emits'.calls[j] \in emits'.stable)
          => PositionOf(emits'.event, emits'.calls[i])
               < PositionOf(emits'.event, emits'.calls[j])]_vars

\* an emit has invoked two subscribed handlers, one of which threw, and has
\* returned
C16_Witness ==
  /\ emits.pc = "done"
  /\ emits.threw
  /\ Len(emits.calls) >= 2
  /\ Range(emits.calls) \subseteq emits.stable
  /\ Cardinality(emits.stable) >= 2

\* C17: no Notification document has its sender as recipient, and no
\* 'notification.create' event is addressed to the user whose like or
\* comment caused it.
C17_NoSelfNotification ==
  /\ \A n \in notifications : n.recipient # n.sender
  /\ \A p \in published :
       p.event = "notification.create" => p.userId # p.actor

\* the owner has liked and commented the own video and liked the own post,
\* the comment being the last request, and nobody was notified
C17_Witness ==
  /\ VideoOwner \in videoLikes
  /\ VideoOwner \in commenters
  /\ PostAuthor \in postLikes
  /\ response = Respond("createComment", VideoOwner, 201)
  /\ notifications = {}

\* the documents the request answered in this step has to write are written
WritePersisted ==
  LET u == response'.actor
  IN CASE response'.op = "toggleLike" ->
            /\ (u \in videoLikes') # (u \in videoLikes)
            /\ (u \in likedPosts') = (u \in videoLikes')
       [] response'.op = "createComment" -> u \in commenters'
       [] response'.op = "followUser" ->
            /\ following' # following
            /\ followers' # followers
       [] OTHER -> TRUE

\* C18: when creating the notification or sending the alert of a like, a
\* comment or a follow fails, the request still answers with success and
\* every document of the like, comment or follow is written.
C18_FanoutFailureIsolated ==
  [][faults' \cap {"Notification.create", "sendMail"} # {}
     => /\ response'.status \in {200, 201}
        /\ WritePersisted]_vars

\* C19: sendEmail is called for a user only while the user has no entry in
\* the registry of online users and has email alerts enabled.
C19_EmailOnlyWhenOffline ==
  [][\A b \in emails' : ~IsOnline(b) /\ settings[b].email]_vars

\* C20: getVideo never answers from the cache with data that was read from
\* the database more than the ttl ago.
C20_NotServedBeyondTtl ==
  [][served'.from = "cache" => now <= served'.loadedAt + VideoTtl]_vars

\* a mutating post operation has written to the database and answered
\* 200 or 201
PostMutated ==
  /\ post' # post \/ postLikes' # postLikes
  /\ response'.status \in {200, 201}

\* C21: once a create, update, delete or like of a post has completed, the
\* listing entry and the post's own entry that were cached before it are
\* gone from the cache.
C21_MutationClearsPostCache ==
  [][PostMutated =>
       \A k \in {"posts:page", "post:slug"} :
         postCache[k] # Miss => postCache'[k] = Miss]_vars

\* toggleLike by somebody who does not own the video answered 200
LikedByOther ==
  /\ videoLikes' # videoLikes
  /\ response' = Respond("toggleLike", response'.actor, 200)
  /\ response'.actor # VideoOwner

\* C22: when a like of another user's video has been answered, no feed or
\* trending listing cached before it that lists the video is left in the
\* cache.
C22_LikeClearsFeeds ==
  [][LikedByOther =>
       \A k \in FeedKeys :
         feeds[k].cached /\ feeds[k].listed => ~feeds'[k].cached]_vars

\* the deleteCache(`video:${id}`) of updateVideo has returned
Invalidated == ureq.pc = "clear" /\ ureq'.pc = "idle"

\* C23: once the invalidation of a key has returned, a get of that key is a
\* miss, also when the call to the store failed.
C23_InvalidatedIsMiss == [][Invalidated => GetCache(TRUE)' = NoEntry]_vars

\* the setCache(cacheKey, videoData, 3600) of getVideo has returned
SetReturned == vreq.pc = "set" /\ vreq'.pc = "idle"

\* C24: a get issued once set(key, v, ttl) has returned, before the ttl has
\* run out and with no invalidation in between, returns exactly v.
C24_GetReturnsWhatWasSet ==
  [][SetReturned =>
       ValueOf(GetCache(TRUE))' = Document(now, vreq.doc, vreq.rev)]_vars

\* a typing event was handled whose receiver the registry has no socket for
TypingUnregistered ==
  /\ typing' # typing
  /\ typing'.receiver \notin Users \/ onlineUsers[typing'.receiver] = None

\* C25: a typing:start or typing:stop for a receiver without a registered
\* connection is dropped: no socket is sent anything (an error to the sender
\* included), no row or notification is written, no event is handed to the
\* bus, and the registry stays as it is.
C25_TypingToUnregisteredDropped ==
  [][TypingUnregistered =>
       /\ out' = {}
       /\ published' = {}
       /\ UNCHANGED <<onlineUsers, sockUser, connected>>
       /\ UNCHANGED <<messages, notifications, sends, nextId, delivered>>]_vars

\* an authenticated socket has just sent a typing event for a user of the
\* system who has no registered connection, and nothing went out
C25_Witness ==
  /\ typing.sock \in connected
  /\ sockUser[typing.sock] # None
  /\ typing.receiver \in Users
  /\ onlineUsers[typing.receiver] = None
  /\ out = {}

\* the send handler of message m pushed message:receive before this step
Pushed(m) == sends[m].pc = "update"

\* the send handler of message m asks for a notification in this step
NotificationRequested(m) ==
  [event |-> "notification.create", mid |-> m] \in published'

\* C26: when the send handler of a persisted message returns, it has either
\* pushed the message live or asked for a notification for the receiver,
\* not both and not neither, however the receiver's connect and disconnect
\* fall between its queries.
C26_PushXorNotification ==
  [][\A m \in DOMAIN sends :
       Completes(m) /\ m \in DOMAIN messages'
       => (Pushed(m) # NotificationRequested(m))]_vars

\* C27: when an updateVideo and a getVideo that missed the cache have both
\* completed, whatever way their steps interleaved, the cache holds no entry
\* for the video or the data of the updated document.
C27_NoStaleEntryAfterUpdate ==
  (vreq.pc = "idle" /\ ureq.pc = "idle")
  => (cache = NoEntry \/ cache.rev = dbRev)

\* getVideo answers in this step
Responds == served'.from # "none"

\* C28: the view count of a getVideo response is never below the count of
\* the response before it and never above the count stored for the video,
\* whatever hits, misses and invalidations came before.
C28_ViewsMonotonicAndStored ==
  [][Responds =>
       /\ served'.views >= lastViews
       /\ served'.views <= dbViews']_vars

\* the UPDATE of GET /chat/messages/:userId has returned and the response
\* is sent
ConversationAnswered == http.pc = "update" /\ http'.pc = "idle"

\* C29: GET /chat/messages/:userId leaves unread every message from the
\* other user that is not among the rows it returns.
C29_OnlyReturnedMarkedRead ==
  [][ConversationAnswered =>
       \A m \in DOMAIN messages :
         (/\ messages[m].sender = http.other
          /\ messages[m].receiver = http.cur
          /\ m \notin http.rows
          /\ ~messages[m].is_read)
         => ~messages'[m].is_read]_vars

\* C30: once cleanup() of the post feature has run, an emit of post.created,
\* post.liked or comment.created calls none of the handlers the post
\* feature registered.
C30_CleanupRemovesListeners ==
  [][cleaned /\ EmitCalled =>
       \A i \in DOMAIN emits'.calls :
         emits'.calls[i] # PostHandler(emits'.event)]_vars

====
